---- MODULE Spec2Model ----
(***************************************************************************)
(* State-machine model of the kraken torrent scheduler's event loop and    *)
(* event handlers (client/torrent/scheduler/events.go).                    *)
(*                                                                         *)
(* events.go holds the eventLoop (Send / Run) and the Apply method of      *)
(* every event.  The collaborators the handlers call -- connState,         *)
(* announceQueue, conn, dispatcher, the error channels handed to           *)
(* newTorrentEvent -- live in other files of the package; they are modelled *)
(* from their documented contract and are marked as such below.            *)
(***************************************************************************)
EXTENDS Integers, Sequences, FiniteSets, TLC

(***************************************************************************)
(* Bounds of the model.                                                    *)
(***************************************************************************)
MaxTime == 1          \* last clock value (Spec)
MaxTasks == 2         \* handshake goroutines started (Spec)
MaxConns == 2         \* conn objects created
MaxDisp == 2          \* dispatchers created
MaxAnnounces == 1     \* announce goroutines running per dispatcher
MaxDials == 3         \* handshake tasks started in AnnounceSpec
MaxResponseLen == 3   \* peers in one announce response in AnnounceSpec
MaxPeerList == 2      \* peers in an announce response (Spec)
MaxSinks == 2         \* newTorrent events applied
MaxReads == 1         \* reads of one error channel by its owner
MaxSeedTime == 3      \* clock ticks in TorrentSpec
MaxPreemptTime == 3   \* clock ticks in PreemptSpec
MaxSends == 2         \* Send calls per sender in LoopSpec
MaxCloseCalls == 2    \* Close() calls on one conn
MaxInFlight == 2      \* announce goroutines of one dispatcher in ReannounceSpec
MaxRetryTime == 4     \* clock ticks in ReannounceSpec

(***************************************************************************)
(* Scheduler configuration (s.config) and identity (s.peerID).             *)
(***************************************************************************)
MaxConnsPerTorrent == 2
BlacklistDuration == 1
IdleConnTTL == 1
ConnTTL == 2
IdleSeederTTL == 1

\* Buffer size of the error channel AddTorrent hands to newTorrentEvent.
SinkCap == 1

Self == "X"
Peers == {"X", "p1", "p2", "p3"}
Hashes == {"h1", "h2"}
Pairs == Peers \X Hashes

NoDisp == 0
NoHash == "none"

\* PeerID strings a tracker may return; "bad" does not parse.
PeerStrs == Peers \cup {"bad"}

RECURSIVE SeqsUpTo(_, _)
SeqsUpTo(S, n) ==
    IF n = 0 THEN {<<>>}
    ELSE LET shorter == SeqsUpTo(S, n - 1)
         IN shorter \cup {Append(q, x) : q \in {r \in shorter : Len(r) = n - 1}, x \in S}

EmptyMap == [x \in {} |-> 0]

VARIABLES
    now,              \* s.clock.Now()
    connState,        \* s.connState: pending, active, blacklist, capacity
    conns,            \* every conn object created so far
    tasks,            \* running initIncomingConn / initOutgoingConn goroutines
    nTasks,           \* number of handshake goroutines started so far
    lastAdds,         \* AddPending calls of the announceResponse applied last, if no
                      \* other event was applied since
    torrentControls,  \* s.torrentControls
    dispatchers,      \* every dispatcher s.dispatcherFactory.New returned
    announceQueue,    \* s.announceQueue
    announces,        \* running announce goroutines, per dispatcher
    sinks,            \* every errc handed to a newTorrentEvent
    applyRest,        \* channel sends the running Apply is still blocked on
    completed,        \* InfoHashes a completedDispatcher has been applied for
    done,             \* l.done is closed
    runPc,            \* where eventLoop.Run is: "select", "apply" or "returned"
    applying,         \* events received from l.events whose Apply has not returned
    sendPc,           \* per sender: where its eventLoop.Send is, and its event
    nSent,            \* per sender: number of Send calls so far
    accepted,         \* events in the order Run received them
    applied,          \* events in the order their Apply returned
    dropped           \* events whose Send returned through the done case

svars == <<now, connState, conns, tasks, nTasks, lastAdds, torrentControls, dispatchers,
           announceQueue, announces, sinks, applyRest, completed>>
loopVars == <<done, runPc, applying, sendPc, nSent, accepted, applied, dropped>>
vars == <<svars, loopVars>>

connVars == <<connState, conns, tasks, nTasks>>
torVars == <<torrentControls, dispatchers, sinks, applyRest, completed>>
annVars == <<announceQueue, announces>>

(***************************************************************************)
(* Small helpers.                                                          *)
(***************************************************************************)
\* timeutil.MostRecent: the latest of the given times.
MostRecent(ts) == CHOOSE m \in ts : \A x \in ts : x <= m

Range(q) == {q[i] : i \in DOMAIN q}

\* f with key k removed from its domain.
Drop(f, k) == [x \in (DOMAIN f) \ {k} |-> f[x]]

\* f with key k set to v, extending the domain when needed.
Put(f, k, v) == [x \in (DOMAIN f) \cup {k} |-> IF x = k THEN v ELSE f[x]]

(***************************************************************************)
(* connState (contract: ConnState operations).  Each operation maps a      *)
(* connState value to the new value and, where the operation can fail, an  *)
(* error.                                                                  *)
(*   pending   : set of (PeerID, InfoHash)                                 *)
(*   active    : (PeerID, InfoHash) -> conn                                *)
(*   blacklist : (PeerID, InfoHash) -> expiry                              *)
(*   capacity  : InfoHash -> remaining connection slots                    *)
(***************************************************************************)
NoErr == "ok"
errTorrentAtCapacity == "AtCapacity"

InitCapacity(cs, h) ==
    IF h \in DOMAIN cs.capacity
    THEN cs
    ELSE [cs EXCEPT !.capacity = Put(cs.capacity, h, MaxConnsPerTorrent)]

\* Variant: a blacklisted pair is admitted like any other.
AddPendingIgnoresBlacklist(cs, p, h) ==
    IF h \notin DOMAIN cs.capacity \/ cs.capacity[h] = 0
    THEN [cs |-> cs, err |-> errTorrentAtCapacity]
    ELSE IF <<p, h>> \in cs.pending
    THEN [cs |-> cs, err |-> "AlreadyPending"]
    ELSE IF <<p, h>> \in DOMAIN cs.active
    THEN [cs |-> cs, err |-> "AlreadyActive"]
    ELSE [cs |-> [cs EXCEPT !.pending = @ \cup {<<p, h>>},
                            !.capacity[h] = @ - 1],
          err |-> NoErr]

AddPending(cs, p, h) ==
    IF h \notin DOMAIN cs.capacity \/ cs.capacity[h] = 0
    THEN [cs |-> cs, err |-> errTorrentAtCapacity]
    ELSE IF <<p, h>> \in cs.pending
    THEN [cs |-> cs, err |-> "AlreadyPending"]
    ELSE IF <<p, h>> \in DOMAIN cs.active
    THEN [cs |-> cs, err |-> "AlreadyActive"]
    ELSE IF <<p, h>> \in DOMAIN cs.blacklist
    THEN [cs |-> cs, err |-> "Blacklisted"]
    ELSE [cs |-> [cs EXCEPT !.pending = @ \cup {<<p, h>>},
                            !.capacity[h] = @ - 1],
          err |-> NoErr]

\* Variant: the pending entry is removed and its slot is not given back.
DeletePendingLeaksSlot(cs, p, h) ==
    IF <<p, h>> \in cs.pending
    THEN [cs EXCEPT !.pending = @ \ {<<p, h>>}]
    ELSE cs

DeletePending(cs, p, h) ==
    IF <<p, h>> \in cs.pending
    THEN [cs EXCEPT !.pending = @ \ {<<p, h>>}, !.capacity[h] = @ + 1]
    ELSE cs

MovePendingToActive(cs, c, p, h) ==
    IF <<p, h>> \in cs.pending /\ <<p, h>> \notin DOMAIN cs.active
    THEN [cs |-> [cs EXCEPT !.pending = @ \ {<<p, h>>},
                            !.active = Put(@, <<p, h>>, c)],
          err |-> NoErr]
    ELSE [cs |-> cs, err |-> "NotPending"]

DeleteActive(cs, c, p, h) ==
    IF <<p, h>> \in DOMAIN cs.active /\ cs.active[<<p, h>>] = c
    THEN [cs EXCEPT !.active = Drop(@, <<p, h>>), !.capacity[h] = @ + 1]
    ELSE cs

Blacklist(cs, p, h, t) ==
    IF <<p, h>> \in cs.pending \/ <<p, h>> \in DOMAIN cs.active
    THEN [cs |-> cs, err |-> "StillConnected"]
    ELSE [cs |-> [cs EXCEPT !.blacklist = Put(@, <<p, h>>, t + BlacklistDuration)],
          err |-> NoErr]

DeleteStaleBlacklistEntries(cs, t) ==
    [cs EXCEPT !.blacklist =
        [k \in {x \in DOMAIN cs.blacklist : cs.blacklist[x] > t} |-> cs.blacklist[k]]]

\* ActiveConns: the conns installed in the active set.
ActiveConns(cs) == {cs.active[k] : k \in DOMAIN cs.active}

(***************************************************************************)
(* conn (contract).  Close is idempotent; the conn's read loop sends one   *)
(* closedConn event once the conn is closed.                               *)
(***************************************************************************)
NewConn(p, h, t) ==
    [peer |-> p, hash |-> h, createdAt |-> t, lastRecv |-> 0, lastSent |-> 0,
     closed |-> FALSE, closeCalls |-> 0, emitted |-> 0, disp |-> NoDisp]

\* c.Close() called on every conn of cset by an Apply body.
CloseAll(cn, cset) ==
    [c \in DOMAIN cn |->
        IF c \in cset
        THEN [cn[c] EXCEPT !.closed = TRUE, !.closeCalls = @ + 1]
        ELSE cn[c]]

\* The read loop of conn c has a closedConn event to send.
ReadLoopEmits(c) == conns[c].closed /\ conns[c].emitted = 0

(***************************************************************************)
(* announceQueue (contract: AnnounceQueue operations).                     *)
(*   queue   : dispatchers ready to announce, in order                     *)
(*   removed : dispatchers Done was called for                             *)
(***************************************************************************)
AqAdd(aq, d) == [aq EXCEPT !.queue = Append(@, d)]

AqReady(aq, d) ==
    IF d \in aq.removed \/ d \in Range(aq.queue)
    THEN aq
    ELSE [aq EXCEPT !.queue = Append(@, d)]

AqDone(aq, d) ==
    [queue |-> SelectSeq(aq.queue, LAMBDA x : x # d),
     removed |-> aq.removed \cup {d}]

(***************************************************************************)
(* dispatcher and torrentControl.                                          *)
(***************************************************************************)
NoCtrl == [present |-> FALSE, disp |-> NoDisp, errors |-> <<>>, complete |-> FALSE]

\* newTorrentControl(dispatcher)
newTorrentControl(d) ==
    [present |-> TRUE, disp |-> d, errors |-> <<>>, complete |-> FALSE]

\* dispatcher.Empty(): no conn is registered with dispatcher d.
Empty(d) == \A c \in DOMAIN conns : conns[c].disp # d

\* torlib.NewPeerID: parse a PeerID string.
NewPeerID(str) ==
    IF str \in Peers THEN [ok |-> TRUE, pid |-> str] ELSE [ok |-> FALSE, pid |-> ""]

(***************************************************************************)
(* Error channels.  errc <- nil completes when the channel has room and    *)
(* blocks the sender otherwise.                                            *)
(***************************************************************************)
NotBlocked == [rest |-> <<>>, hash |-> NoHash]

LoopFree == applyRest = NotBlocked

\* Send nil to the channels of es in order, up to the first full one.
RECURSIVE Deliver(_, _)
Deliver(snk, es) ==
    IF es = <<>>
    THEN [sinks |-> snk, rest |-> <<>>]
    ELSE IF snk[Head(es)].buf < SinkCap
    THEN Deliver([snk EXCEPT ![Head(es)].buf = @ + 1, ![Head(es)].sent = @ + 1],
                 Tail(es))
    ELSE [sinks |-> snk, rest |-> es]


(***************************************************************************)
(* Event handlers (Apply methods).                                         *)
(***************************************************************************)

\* Variant: the pair of the closed conn is not blacklisted.
ClosedConnForgives(c) ==
    /\ c \in DOMAIN conns
    /\ ReadLoopEmits(c)
    /\ connState' = DeleteActive(connState, c, conns[c].peer, conns[c].hash)
    /\ conns' = [conns EXCEPT ![c].emitted = @ + 1]
    /\ lastAdds' = <<>>
    /\ UNCHANGED <<now, tasks, nTasks, torVars, annVars>>

\* closedConnEvent.Apply, sent by the read loop of conn c.
ClosedConnApply(c) ==
    /\ c \in DOMAIN conns
    /\ ReadLoopEmits(c)
    /\ LET p == conns[c].peer
           h == conns[c].hash
           cs1 == DeleteActive(connState, c, p, h)
       IN connState' = Blacklist(cs1, p, h, now).cs
    /\ conns' = [conns EXCEPT ![c].emitted = @ + 1]
    /\ lastAdds' = <<>>
    /\ UNCHANGED <<now, tasks, nTasks, torVars, annVars>>

\* Variant: the pending entry of the failed handshake is kept.
FailedHandshakeKeepsPending(p, h) ==
    /\ \E t \in tasks : t.peer = p /\ t.hash = h
    /\ tasks' = {t \in tasks : ~(t.peer = p /\ t.hash = h)}
    /\ connState' = Blacklist(connState, p, h, now).cs
    /\ lastAdds' = <<>>
    /\ UNCHANGED <<now, conns, nTasks, torVars, annVars>>

\* failedHandshakeEvent.Apply, sent by the handshake task of (p, h).
FailedHandshakeApply(p, h) ==
    /\ \E t \in tasks : t.peer = p /\ t.hash = h
    /\ tasks' = {t \in tasks : ~(t.peer = p /\ t.hash = h)}
    /\ LET cs1 == DeletePending(connState, p, h)
       IN connState' = Blacklist(cs1, p, h, now).cs
    /\ lastAdds' = <<>>
    /\ UNCHANGED <<now, conns, nTasks, torVars, annVars>>

\* incomingHandshakeEvent.Apply
IncomingHandshakeApply(p, h) ==
    LET r == AddPending(connState, p, h)
    IN /\ lastAdds' = <<>>
       /\ IF r.err # NoErr
          THEN \* e.nc.Close(); return
               UNCHANGED <<now, connVars, torVars, annVars>>
          ELSE /\ connState' = r.cs
               /\ tasks' = tasks \cup {[peer |-> p, hash |-> h, dir |-> "in"]}
               /\ nTasks' = nTasks + 1
               /\ UNCHANGED <<now, conns, torVars, annVars>>

\* s.addIncomingConn / s.addOutgoingConn: MovePendingToActive, then register
\* the conn with the torrent's dispatcher; addOk is the dispatcher's answer.
AddConn(cs, cn, c, addOk) ==
    LET p == cn[c].peer
        h == cn[c].hash
        r == MovePendingToActive(cs, c, p, h)
    IN IF r.err # NoErr
       THEN [cs |-> cs, conns |-> cn, err |-> r.err]
       ELSE IF ~torrentControls[h].present \/ ~addOk
       THEN [cs |-> r.cs, conns |-> cn, err |-> "AddConnFailed"]
       ELSE [cs |-> r.cs,
             conns |-> [cn EXCEPT ![c].disp = torrentControls[h].disp],
             err |-> NoErr]

\* Variant: a conn that could not be added is left open.
ConnApplyKeepsOpen(p, h, dir, addOk) ==
    /\ [peer |-> p, hash |-> h, dir |-> dir] \in tasks
    /\ tasks' = tasks \ {[peer |-> p, hash |-> h, dir |-> dir]}
    /\ LET c == Len(conns) + 1
           cn == Append(conns, NewConn(p, h, now))
           r == AddConn(connState, cn, c, addOk)
       IN /\ connState' = r.cs
          /\ conns' = r.conns
    /\ lastAdds' = <<>>
    /\ UNCHANGED <<now, nTasks, torVars, annVars>>

\* incomingConnEvent.Apply / outgoingConnEvent.Apply for the conn the
\* handshake task of (p, h) produced.
ConnApply(p, h, dir, addOk) ==
    /\ [peer |-> p, hash |-> h, dir |-> dir] \in tasks
    /\ tasks' = tasks \ {[peer |-> p, hash |-> h, dir |-> dir]}
    /\ LET c == Len(conns) + 1
           cn == Append(conns, NewConn(p, h, now))
           r == AddConn(connState, cn, c, addOk)
       IN /\ connState' = r.cs
          /\ conns' = IF r.err # NoErr THEN CloseAll(r.conns, {c}) ELSE r.conns
    /\ lastAdds' = <<>>
    /\ UNCHANGED <<now, nTasks, torVars, annVars>>

IncomingConnApply(p, h, addOk) == ConnApply(p, h, "in", addOk)

OutgoingConnApply(p, h, addOk) == ConnApply(p, h, "out", addOk)

\* announceTickEvent.Apply
AnnounceTickApply ==
    /\ lastAdds' = <<>>
    /\ IF announceQueue.queue = <<>>
       THEN UNCHANGED <<now, connVars, torVars, annVars>>
       ELSE LET d == Head(announceQueue.queue)
            IN /\ announceQueue' = [announceQueue EXCEPT !.queue = Tail(@)]
               /\ announces' = [announces EXCEPT ![d] = @ + 1]
               /\ UNCHANGED <<now, connVars, torVars>>

\* Variant: the loop stops once the torrent has no slot left, without asking
\* AddPending.
RECURSIVE AnnouncePeersStopsAtZero(_, _, _, _, _)
AnnouncePeersStopsAtZero(cs, tk, adds, h, ps) ==
    IF ps = <<>>
    THEN [cs |-> cs, tasks |-> tk, adds |-> adds]
    ELSE LET id == NewPeerID(Head(ps))
         IN IF ~id.ok
            THEN AnnouncePeersStopsAtZero(cs, tk, adds, h, Tail(ps))
            ELSE IF id.pid = Self
            THEN AnnouncePeersStopsAtZero(cs, tk, adds, h, Tail(ps))
            ELSE IF cs.capacity[h] = 0
            THEN [cs |-> cs, tasks |-> tk, adds |-> adds]
            ELSE LET r == AddPending(cs, id.pid, h)
                     called == Append(adds, [peer |-> id.pid, err |-> r.err])
                 IN IF r.err # NoErr
                    THEN IF r.err = errTorrentAtCapacity
                         THEN [cs |-> cs, tasks |-> tk, adds |-> called]
                         ELSE AnnouncePeersStopsAtZero(cs, tk, called, h, Tail(ps))
                    ELSE AnnouncePeersStopsAtZero(r.cs,
                             tk \cup {[peer |-> id.pid, hash |-> h, dir |-> "out"]},
                             called, h, Tail(ps))

\* Variant: the scheduler's own peerID is treated like any other peer.
RECURSIVE AnnouncePeersDialsSelf(_, _, _, _, _)
AnnouncePeersDialsSelf(cs, tk, adds, h, ps) ==
    IF ps = <<>>
    THEN [cs |-> cs, tasks |-> tk, adds |-> adds]
    ELSE LET id == NewPeerID(Head(ps))
         IN IF ~id.ok
            THEN AnnouncePeersDialsSelf(cs, tk, adds, h, Tail(ps))
            ELSE LET r == AddPending(cs, id.pid, h)
                     called == Append(adds, [peer |-> id.pid, err |-> r.err])
                 IN IF r.err # NoErr
                    THEN IF r.err = errTorrentAtCapacity
                         THEN [cs |-> cs, tasks |-> tk, adds |-> called]
                         ELSE AnnouncePeersDialsSelf(cs, tk, called, h, Tail(ps))
                    ELSE AnnouncePeersDialsSelf(r.cs,
                             tk \cup {[peer |-> id.pid, hash |-> h, dir |-> "out"]},
                             called, h, Tail(ps))

\* The peer loop of announceResponseEvent.Apply over the peers ps still to
\* look at: the connState and the handshake tasks it leaves, and the
\* AddPending calls it made.
RECURSIVE AnnouncePeers(_, _, _, _, _)
AnnouncePeers(cs, tk, adds, h, ps) ==
    IF ps = <<>>
    THEN [cs |-> cs, tasks |-> tk, adds |-> adds]
    ELSE LET id == NewPeerID(Head(ps))
         IN IF ~id.ok
            THEN AnnouncePeers(cs, tk, adds, h, Tail(ps))
            ELSE IF id.pid = Self
            THEN AnnouncePeers(cs, tk, adds, h, Tail(ps))
            ELSE LET r == AddPending(cs, id.pid, h)
                     called == Append(adds, [peer |-> id.pid, err |-> r.err])
                 IN IF r.err # NoErr
                    THEN IF r.err = errTorrentAtCapacity
                         THEN [cs |-> cs, tasks |-> tk, adds |-> called]
                         ELSE AnnouncePeers(cs, tk, called, h, Tail(ps))
                    ELSE AnnouncePeers(r.cs,
                             tk \cup {[peer |-> id.pid, hash |-> h, dir |-> "out"]},
                             called, h, Tail(ps))

\* announceResponseEvent.Apply, sent by the announce goroutine of dispatcher d.
AnnounceResponseApply(d, peers) ==
    /\ d \in DOMAIN dispatchers
    /\ announces[d] > 0
    /\ announces' = [announces EXCEPT ![d] = @ - 1]
    /\ LET h == dispatchers[d].hash
           ctrl == torrentControls[h]
       IN IF ~ctrl.present
          THEN /\ lastAdds' = <<>>
               /\ UNCHANGED <<announceQueue, connState, tasks, nTasks>>
          ELSE /\ announceQueue' = AqReady(announceQueue, ctrl.disp)
               /\ LET r == AnnouncePeers(connState, tasks, <<>>, h, peers)
                  IN /\ connState' = r.cs
                     /\ tasks' = r.tasks
                     /\ lastAdds' = r.adds
                     /\ nTasks' = nTasks + Cardinality(r.tasks \ tasks)
    /\ UNCHANGED <<now, conns, torVars>>

\* Variant: the failed dispatcher is not put back in the queue.
AnnounceFailureForgets(d) ==
    /\ d \in DOMAIN dispatchers
    /\ announces[d] > 0
    /\ announces' = [announces EXCEPT ![d] = @ - 1]
    /\ announceQueue' = announceQueue
    /\ lastAdds' = <<>>
    /\ UNCHANGED <<now, connVars, torVars>>

\* announceFailureEvent.Apply, sent by the announce goroutine of dispatcher d.
AnnounceFailureApply(d) ==
    /\ d \in DOMAIN dispatchers
    /\ announces[d] > 0
    /\ announces' = [announces EXCEPT ![d] = @ - 1]
    /\ announceQueue' = AqReady(announceQueue, d)
    /\ lastAdds' = <<>>
    /\ UNCHANGED <<now, connVars, torVars>>

\* Variant: the error channel is queued whether or not the torrent is
\* complete.
NewTorrentApplyAlwaysWaits(h) ==
    /\ LET k == Len(sinks) + 1
           snk == Append(sinks, [hash |-> h, buf |-> 0, sent |-> 0, recvd |-> 0,
                                 late |-> h \in completed])
           ok == torrentControls[h].present
           d == Len(dispatchers) + 1
           ctrl == IF ok THEN torrentControls[h] ELSE newTorrentControl(d)
       IN /\ dispatchers' =
                 IF ok THEN dispatchers
                 ELSE Append(dispatchers,
                             [hash |-> h, createdAt |-> now, lastConnRemoved |-> 0])
          /\ announceQueue' = IF ok THEN announceQueue ELSE AqAdd(announceQueue, d)
          /\ announces' = IF ok THEN announces ELSE Append(announces, 0)
          /\ connState' = IF ok THEN connState ELSE InitCapacity(connState, h)
          /\ sinks' = snk
          /\ applyRest' = applyRest
          /\ torrentControls' =
                 [torrentControls EXCEPT
                     ![h] = [ctrl EXCEPT !.errors = Append(@, k)]]
    /\ lastAdds' = <<>>
    /\ UNCHANGED <<now, conns, tasks, nTasks, completed>>

\* newTorrentEvent.Apply for a torrent of InfoHash h and a new error channel.
NewTorrentApply(h) ==
    /\ LET k == Len(sinks) + 1
           snk == Append(sinks, [hash |-> h, buf |-> 0, sent |-> 0, recvd |-> 0,
                                 late |-> h \in completed])
           ok == torrentControls[h].present
           d == Len(dispatchers) + 1
           ctrl == IF ok THEN torrentControls[h] ELSE newTorrentControl(d)
       IN /\ dispatchers' =
                 IF ok THEN dispatchers
                 ELSE Append(dispatchers,
                             [hash |-> h, createdAt |-> now, lastConnRemoved |-> 0])
          /\ announceQueue' = IF ok THEN announceQueue ELSE AqAdd(announceQueue, d)
          /\ announces' = IF ok THEN announces ELSE Append(announces, 0)
          /\ connState' = IF ok THEN connState ELSE InitCapacity(connState, h)
          /\ IF ctrl.complete
             THEN LET r == Deliver(snk, <<k>>)
                  IN /\ sinks' = r.sinks
                     /\ applyRest' = [rest |-> r.rest, hash |-> NoHash]
                     /\ torrentControls' = [torrentControls EXCEPT ![h] = ctrl]
             ELSE /\ sinks' = snk
                  /\ applyRest' = applyRest
                  /\ torrentControls' =
                         [torrentControls EXCEPT
                             ![h] = [ctrl EXCEPT !.errors = Append(@, k)]]
    /\ lastAdds' = <<>>
    /\ UNCHANGED <<now, conns, tasks, nTasks, completed>>

\* Variant: the announce-queue entry is not marked done.
CompletedDispatcherKeepsEntry(d) ==
    /\ d \in DOMAIN dispatchers
    /\ announceQueue' = announceQueue
    /\ LET h == dispatchers[d].hash
           ctrl == torrentControls[h]
       IN IF ~ctrl.present
          THEN UNCHANGED <<torrentControls, sinks, applyRest, completed>>
          ELSE LET r == Deliver(sinks, ctrl.errors)
               IN /\ sinks' = r.sinks
                  /\ completed' = completed \cup {h}
                  /\ IF r.rest = <<>>
                     THEN /\ torrentControls' =
                                 [torrentControls EXCEPT ![h].complete = TRUE]
                          /\ applyRest' = applyRest
                     ELSE /\ torrentControls' = torrentControls
                          /\ applyRest' = [rest |-> r.rest, hash |-> h]
    /\ lastAdds' = <<>>
    /\ UNCHANGED <<now, connVars, dispatchers, announces>>

\* completedDispatcherEvent.Apply
CompletedDispatcherApply(d) ==
    /\ d \in DOMAIN dispatchers
    /\ announceQueue' = AqDone(announceQueue, d)
    /\ LET h == dispatchers[d].hash
           ctrl == torrentControls[h]
       IN IF ~ctrl.present
          THEN UNCHANGED <<torrentControls, sinks, applyRest, completed>>
          ELSE LET r == Deliver(sinks, ctrl.errors)
               IN /\ sinks' = r.sinks
                  /\ completed' = completed \cup {h}
                  /\ IF r.rest = <<>>
                     THEN /\ torrentControls' =
                                 [torrentControls EXCEPT ![h].complete = TRUE]
                          /\ applyRest' = applyRest
                     ELSE /\ torrentControls' = torrentControls
                          /\ applyRest' = [rest |-> r.rest, hash |-> h]
    /\ lastAdds' = <<>>
    /\ UNCHANGED <<now, connVars, dispatchers, announces>>

\* The Apply blocked in errc <- nil goes on once the channel has room.
ResumeApply ==
    /\ ~LoopFree
    /\ sinks[Head(applyRest.rest)].buf < SinkCap
    /\ LET r == Deliver(sinks, applyRest.rest)
       IN /\ sinks' = r.sinks
          /\ IF r.rest = <<>>
             THEN /\ applyRest' = NotBlocked
                  /\ torrentControls' =
                         IF applyRest.hash = NoHash
                         THEN torrentControls
                         ELSE [torrentControls EXCEPT ![applyRest.hash].complete = TRUE]
             ELSE /\ applyRest' = [applyRest EXCEPT !.rest = r.rest]
                  /\ torrentControls' = torrentControls
    /\ UNCHANGED <<now, connVars, lastAdds, dispatchers, completed, annVars>>

\* Variant: a conn exactly at a TTL is preempted.
PreemptConnAtTTL(c) ==
    LET lastProgress ==
            MostRecent({conns[c].createdAt, conns[c].lastRecv, conns[c].lastSent})
    IN IF now - lastProgress >= IdleConnTTL
       THEN TRUE
       ELSE IF now - conns[c].createdAt >= ConnTTL
       THEN TRUE
       ELSE FALSE

\* The first pass of preemptionTickEvent.Apply: whether it closes conn c.
PreemptConn(c) ==
    LET lastProgress ==
            MostRecent({conns[c].createdAt, conns[c].lastRecv, conns[c].lastSent})
    IN IF now - lastProgress > IdleConnTTL
       THEN TRUE
       ELSE IF now - conns[c].createdAt > ConnTTL
       THEN TRUE
       ELSE FALSE

\* RemoveIdle without the Dispatcher.Empty() test of line 296.
RemoveIdleIgnoresConns(h) ==
    LET ctrl == torrentControls[h]
    IN /\ ctrl.present
       /\ ctrl.complete
       /\ LET becameIdle ==
                  MostRecent({dispatchers[ctrl.disp].createdAt,
                              dispatchers[ctrl.disp].lastConnRemoved})
          IN now - becameIdle > IdleSeederTTL

\* The second pass of preemptionTickEvent.Apply: whether it removes the
\* torrentControl of h.
RemoveIdle(h) ==
    LET ctrl == torrentControls[h]
    IN /\ ctrl.present
       /\ ctrl.complete
       /\ Empty(ctrl.disp)
       /\ LET becameIdle ==
                  MostRecent({dispatchers[ctrl.disp].createdAt,
                              dispatchers[ctrl.disp].lastConnRemoved})
          IN now - becameIdle > IdleSeederTTL

\* preemptionTickEvent.Apply
PreemptionTickApply ==
    LET closing == {c \in ActiveConns(connState) : PreemptConn(c)}
    IN /\ conns' = CloseAll(conns, closing)
       /\ torrentControls' =
              [h \in Hashes |-> IF RemoveIdle(h) THEN NoCtrl ELSE torrentControls[h]]
       /\ lastAdds' = <<>>
       /\ UNCHANGED <<now, connState, tasks, nTasks, dispatchers, sinks,
                      applyRest, completed, annVars>>

\* cleanupBlacklistEvent.Apply
CleanupBlacklistApply ==
    /\ connState' = DeleteStaleBlacklistEntries(connState, now)
    /\ lastAdds' = <<>>
    /\ UNCHANGED <<now, conns, tasks, nTasks, torVars, annVars>>

(***************************************************************************)
(* Environment: the clock, the remote peers, the dispatchers and the       *)
(* callers of AddTorrent.                                                  *)
(***************************************************************************)
AdvanceClock ==
    /\ now' = now + 1
    /\ UNCHANGED <<connVars, lastAdds, torVars, annVars>>

\* The socket of conn c fails or the remote peer closes it.
ExternalClose(c) ==
    /\ c \in DOMAIN conns
    /\ ~conns[c].closed
    /\ conns' = [conns EXCEPT ![c].closed = TRUE]
    /\ UNCHANGED <<now, connState, tasks, nTasks, lastAdds, torVars, annVars>>

\* A piece arrives on (recv) or leaves through (~recv) conn c.
PieceActivity(c, recv) ==
    /\ c \in DOMAIN conns
    /\ ~conns[c].closed
    /\ conns[c].disp # NoDisp
    /\ conns' = IF recv THEN [conns EXCEPT ![c].lastRecv = now]
                        ELSE [conns EXCEPT ![c].lastSent = now]
    /\ UNCHANGED <<now, connState, tasks, nTasks, lastAdds, torVars, annVars>>

\* The dispatcher of closed conn c drops it.
DispatcherDropConn(c) ==
    /\ c \in DOMAIN conns
    /\ conns[c].closed
    /\ conns[c].disp # NoDisp
    /\ conns' = [conns EXCEPT ![c].disp = NoDisp]
    /\ dispatchers' = [dispatchers EXCEPT ![conns[c].disp].lastConnRemoved = now]
    /\ UNCHANGED <<now, connState, tasks, nTasks, lastAdds, torrentControls,
                   sinks, applyRest, completed, annVars>>

\* The caller of AddTorrent reads its error channel.
SinkRecv(k) ==
    /\ k \in DOMAIN sinks
    /\ sinks[k].buf > 0
    /\ sinks' = [sinks EXCEPT ![k].buf = @ - 1, ![k].recvd = @ + 1]
    /\ UNCHANGED <<now, connVars, lastAdds, torrentControls, dispatchers,
                   applyRest, completed, annVars>>

(***************************************************************************)
(* eventLoop.  The goroutines calling Send are the senders; an event is    *)
(* named by its sender and the number of the Send call.  l.events is       *)
(* unbuffered: a send completes when Run receives.  close(l.done) wakes    *)
(* every goroutine parked in a select on l.done, and a woken goroutine     *)
(* takes the done case; a select entered when l.done is closed and no      *)
(* goroutine is parked on l.events takes the done case as well.  So once   *)
(* l.done is closed no send on l.events completes.                         *)
(***************************************************************************)
Senders == {"a", "b"}
Kinds == {"newTorrent", "completedDispatcher"}
NoEvent == [sender |-> "none", seq |-> 0, kind |-> "none"]
Idle == [pc |-> "idle", ev |-> NoEvent]

\* A goroutine calls l.Send(e) and parks in the select.
SendCall(s, kind) ==
    /\ sendPc[s].pc = "idle"
    /\ nSent[s] < MaxSends
    /\ kind = "completedDispatcher" => dispatchers # <<>>
    /\ nSent' = [nSent EXCEPT ![s] = @ + 1]
    /\ sendPc' = [sendPc EXCEPT ![s] =
                      [pc |-> "sending",
                       ev |-> [sender |-> s, seq |-> nSent[s] + 1, kind |-> kind]]]
    /\ UNCHANGED <<svars, done, runPc, applying, accepted, applied, dropped>>

\* Send: case <-l.done.  The event is dropped.
SendDone(s) ==
    /\ sendPc[s].pc = "sending"
    /\ done
    /\ sendPc' = [sendPc EXCEPT ![s] = Idle]
    /\ dropped' = dropped \cup {sendPc[s].ev}
    /\ UNCHANGED <<svars, done, runPc, applying, nSent, accepted, applied>>

\* Variant: Run starts the Apply in a goroutine of its own and goes on
\* receiving.
RunRecvAsync(s) ==
    /\ runPc = "select"
    /\ sendPc[s].pc = "sending"
    /\ ~done
    /\ sendPc' = [sendPc EXCEPT ![s] = Idle]
    /\ accepted' = Append(accepted, sendPc[s].ev)
    /\ applying' = applying \cup {[ev |-> sendPc[s].ev, begun |-> FALSE,
                                    late |-> FALSE]}
    /\ UNCHANGED <<svars, done, runPc, nSent, applied, dropped>>

\* Variant: Run receives from l.events whether or not l.done is closed.
RunRecvAfterClose(s) ==
    /\ runPc = "select"
    /\ sendPc[s].pc = "sending"
    /\ sendPc' = [sendPc EXCEPT ![s] = Idle]
    /\ accepted' = Append(accepted, sendPc[s].ev)
    /\ applying' = applying \cup {[ev |-> sendPc[s].ev, begun |-> FALSE,
                                    late |-> FALSE]}
    /\ runPc' = "apply"
    /\ UNCHANGED <<svars, done, nSent, applied, dropped>>

\* Run: case e := <-l.events, meeting Send: case l.events <- e of sender s.
RunRecv(s) ==
    /\ runPc = "select"
    /\ sendPc[s].pc = "sending"
    /\ ~done
    /\ sendPc' = [sendPc EXCEPT ![s] = Idle]
    /\ accepted' = Append(accepted, sendPc[s].ev)
    /\ applying' = applying \cup {[ev |-> sendPc[s].ev, begun |-> FALSE,
                                    late |-> FALSE]}
    /\ runPc' = "apply"
    /\ UNCHANGED <<svars, done, nSent, applied, dropped>>

\* Run: case <-l.done: return.
RunDone ==
    /\ runPc = "select"
    /\ done
    /\ runPc' = "returned"
    /\ UNCHANGED <<svars, done, applying, sendPc, nSent, accepted, applied, dropped>>

\* The Apply of a has returned if it is not blocked in a channel send: Run
\* is back at its select.
AfterApply(a, late) ==
    IF applyRest' = NotBlocked
    THEN /\ applying' = applying \ {a}
         /\ applied' = Append(applied, [ev |-> a.ev, late |-> late])
         /\ runPc' = "select"
    ELSE /\ applying' = (applying \ {a}) \cup
                            {[ev |-> a.ev, begun |-> TRUE, late |-> late]}
         /\ applied' = applied
         /\ runPc' = runPc

\* Run: e.Apply(s), up to its return or to the channel send it blocks in.
\* late records whether l.done was closed when the Apply began.
RunApply(a) ==
    /\ a \in applying
    /\ ~a.begun
    /\ LoopFree
    /\ IF a.ev.kind = "newTorrent"
       THEN NewTorrentApply("h1")
       ELSE CompletedDispatcherApply(1)
    /\ AfterApply(a, done)
    /\ UNCHANGED <<done, sendPc, nSent, accepted, dropped>>

\* Run: the blocked Apply goes on.
RunResume(a) ==
    /\ a \in applying
    /\ a.begun
    /\ ResumeApply
    /\ AfterApply(a, a.late)
    /\ UNCHANGED <<done, sendPc, nSent, accepted, dropped>>

\* Scheduler.Stop: close(s.done).
CloseDone ==
    /\ ~done
    /\ done' = TRUE
    /\ UNCHANGED <<svars, runPc, applying, sendPc, nSent, accepted, applied, dropped>>

\* The loop stays as it is: the step is one event received and applied.
LoopIdle == UNCHANGED loopVars

Init ==
    /\ now = 0
    /\ connState = [pending |-> {}, active |-> EmptyMap, blacklist |-> EmptyMap,
                    capacity |-> EmptyMap]
    /\ conns = <<>>
    /\ tasks = {}
    /\ nTasks = 0
    /\ lastAdds = <<>>
    /\ torrentControls = [h \in Hashes |-> NoCtrl]
    /\ dispatchers = <<>>
    /\ announceQueue = [queue |-> <<>>, removed |-> {}]
    /\ announces = <<>>
    /\ sinks = <<>>
    /\ applyRest = NotBlocked
    /\ completed = {}
    /\ done = FALSE
    /\ runPc = "select"
    /\ applying = {}
    /\ sendPc = [s \in Senders |-> Idle]
    /\ nSent = [s \in Senders |-> 0]
    /\ accepted = <<>>
    /\ applied = <<>>
    /\ dropped = {}

(***************************************************************************)
(* Bounds on what the environment does, stated once for all                *)
(* specifications.                                                         *)
(***************************************************************************)
MayDial == nTasks' <= MaxTasks
MayConnect == Len(conns) < MaxConns
MayAdd(h) ==
    /\ Len(sinks) < MaxSinks
    /\ torrentControls[h].present \/ Len(dispatchers) < MaxDisp
MayAnnounce == \A d \in DOMAIN announces : announces[d] < MaxAnnounces
MayClose == \A c \in DOMAIN conns : conns[c].closeCalls < MaxCloseCalls
MayRead(k) == k \in DOMAIN sinks /\ sinks[k].recvd < MaxReads

(***************************************************************************)
(* Spec: the connection life cycle over two torrents.  Every step is one   *)
(* event applied by the loop, or a step of the environment.                *)
(***************************************************************************)
SpecPeers == {"p1", "p2"}
SpecPeerLists == SeqsUpTo(SpecPeers \cup {Self, "bad"}, MaxPeerList)

Next ==
    \/ LoopIdle /\ \E c \in DOMAIN conns : ClosedConnApply(c)
    \/ LoopIdle /\ \E p \in SpecPeers, h \in Hashes : FailedHandshakeApply(p, h)
    \/ LoopIdle /\ \E p \in SpecPeers, h \in Hashes : IncomingHandshakeApply(p, h) /\ MayDial
    \/ LoopIdle /\ \E p \in SpecPeers, h \in Hashes, ok \in BOOLEAN :
           MayConnect /\ IncomingConnApply(p, h, ok)
    \/ LoopIdle /\ \E p \in SpecPeers, h \in Hashes, ok \in BOOLEAN :
           MayConnect /\ OutgoingConnApply(p, h, ok)
    \/ LoopIdle /\ MayAnnounce /\ AnnounceTickApply
    \/ LoopIdle /\ \E d \in DOMAIN dispatchers, peers \in SpecPeerLists :
           AnnounceResponseApply(d, peers) /\ MayDial
    \/ LoopIdle /\ \E h \in Hashes :
           ~torrentControls[h].present /\ MayAdd(h) /\ NewTorrentApply(h)
    \/ LoopIdle /\ MayClose /\ PreemptionTickApply
    \/ LoopIdle /\ CleanupBlacklistApply
    \/ LoopIdle /\ now < MaxTime /\ AdvanceClock
    \/ LoopIdle /\ \E c \in DOMAIN conns : ExternalClose(c)

Spec == Init /\ [][Next]_vars

\* The handshake task of (p, h) ends: it reports a failure or hands over the
\* conn it made.
HandshakeEnds(p, h) ==
    \/ FailedHandshakeApply(p, h)
    \/ \E ok \in BOOLEAN : MayConnect /\ IncomingConnApply(p, h, ok)
    \/ \E ok \in BOOLEAN : MayConnect /\ OutgoingConnApply(p, h, ok)

\* Spec with handshake tasks that terminate and read loops whose closedConn
\* event gets applied.
FairSpec ==
    /\ Spec
    /\ \A p \in SpecPeers, h \in Hashes : WF_vars(LoopIdle /\ HandshakeEnds(p, h))
    /\ \A c \in 1..MaxConns : WF_vars(LoopIdle /\ ClosedConnApply(c))

(***************************************************************************)
(* PreemptSpec: conns of one torrent from handshake to preemption and      *)
(* closedConn, with the clock running past both TTLs.                      *)
(***************************************************************************)
PreemptPeers == {"p1", "p2"}

PreemptNext ==
    \/ LoopIdle /\ ~torrentControls["h1"].present /\ MayAdd("h1") /\ NewTorrentApply("h1")
    \/ LoopIdle /\ \E p \in PreemptPeers : IncomingHandshakeApply(p, "h1") /\ MayDial
    \/ LoopIdle /\ \E p \in PreemptPeers, ok \in BOOLEAN :
           MayConnect /\ IncomingConnApply(p, "h1", ok)
    \/ LoopIdle /\ \E c \in DOMAIN conns : ClosedConnApply(c)
    \/ LoopIdle /\ MayClose /\ PreemptionTickApply
    \/ LoopIdle /\ now < MaxPreemptTime /\ AdvanceClock
    \/ LoopIdle /\ \E c \in DOMAIN conns : ExternalClose(c)
    \/ LoopIdle /\ \E c \in DOMAIN conns, recv \in BOOLEAN : PieceActivity(c, recv)

PreemptSpec == Init /\ [][PreemptNext]_vars

\* The read loop of a closed conn gets its closedConn event applied.
FairPreemptSpec ==
    PreemptSpec /\ \A c \in 1..MaxConns : WF_vars(LoopIdle /\ ClosedConnApply(c))

(***************************************************************************)
(* TorrentSpec: torrents from AddTorrent to completion and to the removal  *)
(* of the idle seeder.  An Apply blocked in errc <- nil holds the loop.    *)
(***************************************************************************)
TorrentNext ==
    \/ LoopIdle /\ \E h \in Hashes : LoopFree /\ MayAdd(h) /\ NewTorrentApply(h)
    \/ LoopIdle /\ \E d \in DOMAIN dispatchers : LoopFree /\ CompletedDispatcherApply(d)
    \/ LoopIdle /\ ResumeApply
    \/ LoopIdle /\ \E k \in DOMAIN sinks : MayRead(k) /\ SinkRecv(k)
    \/ LoopIdle /\ LoopFree /\ MayClose /\ PreemptionTickApply
    \/ LoopIdle /\ now < MaxSeedTime /\ AdvanceClock
    \/ LoopIdle /\ LoopFree /\ IncomingHandshakeApply("p1", "h1") /\ MayDial
    \/ LoopIdle /\ LoopFree /\ MayConnect /\ IncomingConnApply("p1", "h1", TRUE)
    \/ LoopIdle /\ \E c \in DOMAIN conns : LoopFree /\ ClosedConnApply(c)
    \/ LoopIdle /\ \E c \in DOMAIN conns : ExternalClose(c)
    \/ LoopIdle /\ \E c \in DOMAIN conns : DispatcherDropConn(c)

TorrentSpec == Init /\ [][TorrentNext]_vars

(***************************************************************************)
(* AnnounceSpec: announce responses of up to MaxResponseLen peers for one  *)
(* torrent, met by pending, active and blacklisted pairs.                  *)
(***************************************************************************)
AnnouncePeerLists == SeqsUpTo(PeerStrs, MaxResponseLen)

AnnounceNext ==
    \/ LoopIdle /\ ~torrentControls["h1"].present /\ MayAdd("h1") /\ NewTorrentApply("h1")
    \/ LoopIdle /\ MayAnnounce /\ AnnounceTickApply
    \/ LoopIdle /\ \E d \in DOMAIN dispatchers, peers \in AnnouncePeerLists :
           AnnounceResponseApply(d, peers) /\ nTasks' <= MaxDials
    \/ LoopIdle /\ \E d \in DOMAIN dispatchers : AnnounceFailureApply(d)
    \/ LoopIdle /\ \E p \in Peers : FailedHandshakeApply(p, "h1")
    \/ LoopIdle /\ \E p \in Peers : MayConnect /\ OutgoingConnApply(p, "h1", TRUE)

AnnounceSpec == Init /\ [][AnnounceNext]_vars

(***************************************************************************)
(* ReannounceSpec: the announce cycle of two torrents together with        *)
(* completion, seeder garbage collection and re-adding, so that responses  *)
(* and failures of earlier announces arrive in every order.                *)
(***************************************************************************)
ReannouncePeerLists == {<<>>, <<"p1">>}

MayTick ==
    IF announceQueue.queue = <<>>
    THEN TRUE
    ELSE announces[Head(announceQueue.queue)] < MaxInFlight

ReannounceNext ==
    \/ LoopIdle /\ \E h \in Hashes : LoopFree /\ MayAdd(h) /\ NewTorrentApply(h)
    \/ LoopIdle /\ LoopFree /\ MayTick /\ AnnounceTickApply
    \/ LoopIdle /\ \E d \in DOMAIN dispatchers, peers \in ReannouncePeerLists :
           LoopFree /\ AnnounceResponseApply(d, peers) /\ MayDial
    \/ LoopIdle /\ \E d \in DOMAIN dispatchers : LoopFree /\ AnnounceFailureApply(d)
    \/ LoopIdle /\ \E d \in DOMAIN dispatchers : LoopFree /\ CompletedDispatcherApply(d)
    \/ LoopIdle /\ ResumeApply
    \/ LoopIdle /\ \E k \in DOMAIN sinks : MayRead(k) /\ SinkRecv(k)
    \/ LoopIdle /\ LoopFree /\ PreemptionTickApply
    \/ LoopIdle /\ now < MaxRetryTime /\ AdvanceClock

ReannounceSpec == Init /\ [][ReannounceNext]_vars

(***************************************************************************)
(* LoopSpec: senders, Run and Stop, with the events of one torrent and the *)
(* readers of its error channels.                                          *)
(***************************************************************************)
LoopNext ==
    \/ \E s \in Senders, kind \in Kinds : SendCall(s, kind)
    \/ \E s \in Senders : SendDone(s)
    \/ \E s \in Senders : RunRecv(s)
    \/ RunDone
    \/ \E a \in applying : RunApply(a)
    \/ \E a \in applying : RunResume(a)
    \/ CloseDone
    \/ \E k \in DOMAIN sinks : LoopIdle /\ MayRead(k) /\ SinkRecv(k)

LoopSpec == Init /\ [][LoopNext]_vars

\* Every goroutine that can take a step takes it, and the caller of
\* AddTorrent reads its error channel.
FairLoopSpec ==
    /\ LoopSpec
    /\ \A s \in Senders : WF_vars(SendDone(s)) /\ WF_vars(RunRecv(s))
    /\ WF_vars(RunDone)
    /\ WF_vars(\E a \in applying : RunApply(a))
    /\ WF_vars(\E a \in applying : RunResume(a))
    /\ \A k \in 1..(2 * MaxSends) : WF_vars(LoopIdle /\ MayRead(k) /\ SinkRecv(k))

(***************************************************************************)
(* Properties of the connection life cycle (Spec).                         *)
(***************************************************************************)
PendingOn(h) == {k \in connState.pending : k[2] = h}
ActiveOn(h) == {k \in DOMAIN connState.active : k[2] = h}
BlacklistedOn(h) == {k \in DOMAIN connState.blacklist : k[2] = h}

\* C1: between events, every InfoHash h whose capacity was initialised has
\* |pending(h)| + |active(h)| + capacity[h] = MaxConnsPerTorrent, and
\* capacity[h] is never negative.
CapacityConserved ==
    \A h \in DOMAIN connState.capacity :
        /\ connState.capacity[h] >= 0
        /\ Cardinality(PendingOn(h)) + Cardinality(ActiveOn(h))
               + connState.capacity[h] = MaxConnsPerTorrent

\* A torrent that is full: one pending and one active conn, no slot left.
CapacityExhausted ==
    \E h \in DOMAIN connState.capacity :
        /\ connState.capacity[h] = 0
        /\ PendingOn(h) # {}
        /\ ActiveOn(h) # {}

\* C2: between events, pending, active and blacklist are pairwise disjoint
\* on (PeerID, InfoHash).
SetsDisjoint ==
    /\ connState.pending \cap DOMAIN connState.active = {}
    /\ connState.pending \cap DOMAIN connState.blacklist = {}
    /\ DOMAIN connState.active \cap DOMAIN connState.blacklist = {}

\* A pair is blacklisted while another is pending or active, and the event
\* applied last tried to admit the blacklisted pair and was refused.
BlacklistedRefused ==
    /\ connState.pending \cup DOMAIN connState.active # {}
    /\ \E i \in DOMAIN lastAdds :
           /\ lastAdds[i].err = "Blacklisted"
           /\ \E k \in DOMAIN connState.blacklist : k[1] = lastAdds[i].peer

(***************************************************************************)
(* Properties of preemption and of closed conns (PreemptSpec).             *)
(***************************************************************************)
\* now - max(CreatedAt, LastGoodPieceReceived, LastPieceSent) > IdleConnTTL
IdleTooLong(c) ==
    /\ now - conns[c].createdAt > IdleConnTTL
    /\ now - conns[c].lastRecv > IdleConnTTL
    /\ now - conns[c].lastSent > IdleConnTTL

TooOld(c) == now - conns[c].createdAt > ConnTTL

Due(c) == c \in ActiveConns(connState) /\ (IdleTooLong(c) \/ TooOld(c))

PairOf(c) == <<conns[c].peer, conns[c].hash>>

PreemptionRule ==
    /\ [][PreemptionTickApply =>
            /\ connState' = connState
            /\ \A c \in DOMAIN conns :
                   /\ conns'[c].closeCalls =
                          conns[c].closeCalls + (IF Due(c) THEN 1 ELSE 0)
                   /\ conns'[c].closed = (conns[c].closed \/ Due(c))]_vars
    /\ [][\A c \in DOMAIN conns :
              c \in ActiveConns(connState) =>
                  IF ClosedConnApply(c)
                  THEN /\ PairOf(c) \notin DOMAIN connState'.active
                       /\ PairOf(c) \notin connState'.pending
                       /\ connState'.capacity[conns[c].hash] =
                              connState.capacity[conns[c].hash] + 1
                       /\ PairOf(c) \in DOMAIN connState'.blacklist
                       /\ connState'.blacklist[PairOf(c)] = now + BlacklistDuration
                  ELSE c \in ActiveConns(connState')]_vars

\* A conn that made progress right now was closed for its age by a tick, and
\* its closedConn event has released and blacklisted it; the other conn, at
\* IdleConnTTL exactly, is still open.
PreemptedByAge ==
    \E c \in DOMAIN conns, k \in DOMAIN conns :
        /\ conns[c].lastRecv = now
        /\ conns[c].closeCalls = 1
        /\ conns[c].emitted = 1
        /\ c \notin ActiveConns(connState)
        /\ PairOf(c) \in DOMAIN connState.blacklist
        /\ k \in ActiveConns(connState)
        /\ now - conns[k].createdAt = IdleConnTTL
        /\ ~conns[k].closed

(***************************************************************************)
(* Properties of torrents and their error channels (TorrentSpec).          *)
(***************************************************************************)
\* C6: an error sink attached before its torrent completed is sent success
\* once the completedDispatcher event is applied, and never a second time
\* however often completedDispatcher is applied.
SuccessExactlyOnce ==
    /\ \A k \in DOMAIN sinks : sinks[k].sent <= 1
    /\ \A h \in Hashes :
           torrentControls[h].present /\ torrentControls[h].complete =>
               \A i \in DOMAIN torrentControls[h].errors :
                   sinks[torrentControls[h].errors[i]].sent >= 1

\* C7 as stated: a newTorrent applied at any point after the completedDispatcher
\* of its InfoHash has resolved its sink, and no InfoHash has had a second
\* dispatcher.
LateNewTorrentResolved ==
    /\ \A k \in DOMAIN sinks : sinks[k].late => sinks[k].sent >= 1
    /\ \A d \in DOMAIN dispatchers, e \in DOMAIN dispatchers :
           dispatchers[d].hash = dispatchers[e].hash => d = e

\* C7: while the torrentControl of h is present and complete, a newTorrent(h)
\* sends success to its sink within the Apply and creates neither a
\* dispatcher nor a torrentControl; once a preemptionTick has removed the
\* idle seeder, newTorrent(h) creates a new dispatcher and its sink waits.
\* The sinks queued on a control have all been sent success once it is
\* complete.
NewTorrentIdempotent ==
    /\ [][\A h \in Hashes :
              LoopFree /\ NewTorrentApply(h) =>
                  LET k == Len(sinks) + 1
                  IN IF torrentControls[h].present /\ torrentControls[h].complete
                     THEN /\ sinks'[k].sent = 1
                          /\ dispatchers' = dispatchers
                          /\ torrentControls' = torrentControls
                     ELSE /\ sinks'[k].sent = 0
                          /\ torrentControls'[h].present
                          /\ ~torrentControls'[h].complete
                          /\ k \in Range(torrentControls'[h].errors)
                          /\ torrentControls[h].present <=>
                                 dispatchers' = dispatchers]_vars
    /\ [](\A h \in Hashes :
             torrentControls[h].present /\ torrentControls[h].complete =>
                 \A i \in DOMAIN torrentControls[h].errors :
                     sinks[torrentControls[h].errors[i]].sent >= 1)

\* One sink was resolved at the completedDispatcher event, a later one within
\* its own newTorrent, and the control is still present.
ResolvedAfterCompletion ==
    \E h \in Hashes, j \in DOMAIN sinks, k \in DOMAIN sinks :
        /\ torrentControls[h].present
        /\ torrentControls[h].complete
        /\ sinks[j].hash = h /\ ~sinks[j].late /\ sinks[j].sent = 1
        /\ sinks[k].hash = h /\ sinks[k].late /\ sinks[k].sent = 1
        /\ k \notin Range(torrentControls[h].errors)
        /\ Len(dispatchers) = 1

(***************************************************************************)
(* Properties of announce responses (AnnounceSpec).                        *)
(***************************************************************************)
\* Peer i of the response can be admitted: its PeerID parses, is not the
\* scheduler's own, is not pending, active or blacklisted on h, and has not
\* occurred earlier in the list.
Admissible(peers, h, i) ==
    /\ peers[i] \in Peers
    /\ peers[i] # Self
    /\ <<peers[i], h>> \notin connState.pending
    /\ <<peers[i], h>> \notin DOMAIN connState.active
    /\ <<peers[i], h>> \notin DOMAIN connState.blacklist
    /\ \A j \in 1..(i - 1) : peers[j] # peers[i]

\* The peers dialed: the admissible ones, in list order, while slots last.
Admitted(peers, h) ==
    {peers[i] : i \in {n \in DOMAIN peers :
        /\ Admissible(peers, h, n)
        /\ Cardinality({j \in 1..n : Admissible(peers, h, j)})
               <= connState.capacity[h]}}

\* C8: an announceResponse for a present torrentControl starts outgoing
\* handshakes for exactly the admissible peers, in list order, until the
\* torrent has no slot left; each dial has one new pending entry and one
\* slot, none is for the scheduler's own peerID, and AddPending is not
\* called again after it answered AtCapacity.
AnnounceAdmission ==
    [][\A d \in DOMAIN dispatchers, peers \in AnnouncePeerLists :
          AnnounceResponseApply(d, peers)
              /\ torrentControls[dispatchers[d].hash].present =>
          LET h == dispatchers[d].hash
              dialed == Admitted(peers, h)
          IN /\ tasks' = tasks \cup
                     {[peer |-> q, hash |-> h, dir |-> "out"] : q \in dialed}
             /\ connState'.pending =
                     connState.pending \cup {<<q, h>> : q \in dialed}
             /\ connState'.capacity[h] =
                     connState.capacity[h] - Cardinality(dialed)
             /\ Cardinality(dialed) <= connState.capacity[h]
             /\ Self \notin dialed
             /\ connState'.active = connState.active
             /\ connState'.blacklist = connState.blacklist
             /\ \A i \in 1..(Len(lastAdds') - 1) :
                    lastAdds'[i].err # errTorrentAtCapacity
             /\ {lastAdds'[i].peer : i \in {n \in DOMAIN lastAdds' :
                                               lastAdds'[n].err = NoErr}} = dialed]_vars

\* A response of three peers met two free slots: the first two were dialed
\* and the third was answered AtCapacity.
TwoOfThreeDialed ==
    /\ Len(lastAdds) = 3
    /\ lastAdds[1].err = NoErr
    /\ lastAdds[2].err = NoErr
    /\ lastAdds[3].err = errTorrentAtCapacity
    /\ \A i \in 1..3 :
           [peer |-> lastAdds[i].peer, hash |-> "h1", dir |-> "out"] \in tasks
               <=> i < 3
    /\ connState.capacity["h1"] = 0

(***************************************************************************)
(* Properties of the event loop (LoopSpec).                                *)
(***************************************************************************)
AppliedEvents == [i \in DOMAIN applied |-> applied[i].ev]

\* C3: at most one Apply runs at a time, events are applied in the order Run
\* received them, and an event of a sender has been applied in full before
\* a later event of the same sender begins.
SerializedInOrder ==
    /\ Cardinality(applying) <= 1
    /\ IF applying = {}
       THEN accepted = AppliedEvents
       ELSE \E a \in applying : accepted = Append(AppliedEvents, a.ev)
    /\ \A i \in DOMAIN accepted, j \in DOMAIN accepted :
           /\ accepted[i].sender = accepted[j].sender
           /\ accepted[i].seq < accepted[j].seq
           => /\ i < j
              /\ accepted[i] \in Range(AppliedEvents)

\* Both events of one sender have been applied, in order, with an event of
\* the other sender between them; that sender is blocked in Send again while
\* the next Apply runs.
TwoSendersInterleaved ==
    \E s \in Senders, t \in Senders :
        /\ s # t
        /\ Len(applied) = 3
        /\ applied[1].ev.sender = s /\ applied[1].ev.seq = 1
        /\ applied[2].ev.sender = t
        /\ applied[3].ev.sender = s /\ applied[3].ev.seq = 2
        /\ sendPc[t].pc = "sending"
        /\ runPc = "select"
        /\ ~done

\* C4 as stated: once l.done is closed, Run returns and every Send that is
\* blocked or called afterwards returns.
ShutdownCompletes ==
    /\ done ~> (runPc = "returned")
    /\ \A s \in Senders :
           (done /\ sendPc[s].pc = "sending") ~> (sendPc[s].pc = "idle")

\* C5 as stated: once l.done is closed no Apply begins, and no dropped event
\* reaches Apply.
NoApplyAfterDone ==
    /\ \A i \in DOMAIN applied : ~applied[i].late
    /\ \A a \in applying : ~a.late
    /\ dropped \cap Range(accepted) = {}

\* C5: once l.done is closed Run receives no event; an event whose Send is
\* blocked when l.done closes, or is called later, is dropped and never
\* reaches Apply; only the one event Run received before l.done closed and
\* had not yet applied is applied after it.
NoReceiveAfterDone ==
    /\ [][done => accepted' = accepted]_vars
    /\ [][\A s \in Senders :
              done /\ sendPc[s].pc = "sending" /\ sendPc'[s] # sendPc[s] =>
                  /\ sendPc[s].ev \in dropped'
                  /\ sendPc[s].ev \notin Range(accepted')]_vars
    /\ [](dropped \cap Range(accepted) = {})
    /\ [](Cardinality({i \in DOMAIN applied : applied[i].late})
             + Cardinality({a \in applying : a.late}) <= 1)
    /\ [](\A i \in DOMAIN applied :
             applied[i].late => \A j \in DOMAIN applied : j <= i)

\* Run has returned; the event it had received before l.done closed was
\* applied after that, and the events of both senders that were in Send then
\* or later were dropped.
LastEventApplied ==
    /\ done
    /\ runPc = "returned"
    /\ applied # <<>>
    /\ applied[Len(applied)].late
    /\ \A s \in Senders : \E e \in dropped : e.sender = s
    /\ \E e \in dropped : e.seq = 2

(***************************************************************************)
(* Seeder garbage collection                                               *)
(***************************************************************************)
\* The time at which the dispatcher of h became idle.
BecameIdle(h) ==
    LET d == torrentControls[h].disp
    IN IF dispatchers[d].createdAt > dispatchers[d].lastConnRemoved
       THEN dispatchers[d].createdAt
       ELSE dispatchers[d].lastConnRemoved

\* Some conn is registered with the dispatcher of h.
ConnRegistered(h) ==
    \E c \in DOMAIN conns : conns[c].disp = torrentControls[h].disp

\* C11: a step removes torrentControls[h] if and only if it is a
\* preemptionTick applied while the control is complete, no conn is registered
\* with its dispatcher and more than IdleSeederTTL has passed since the later
\* of the dispatcher's creation and its last conn removal; so a torrent that
\* is not complete, or that has a conn registered, is removed by no event.
SeederRemovedIffIdle ==
    [][\A h \in Hashes :
          (torrentControls[h].present /\ ~torrentControls'[h].present)
          <=> /\ PreemptionTickApply
              /\ torrentControls[h].present
              /\ torrentControls[h].complete
              /\ ~ConnRegistered(h)
              /\ now - BecameIdle(h) > IdleSeederTTL]_vars

\* C11 witness: a completed torrent was removed, and the idle time was counted
\* from the removal of its last conn, which came after the dispatcher's
\* creation.
IdleSeederRemoved ==
    \E h \in Hashes :
        /\ ~torrentControls[h].present
        /\ h \in completed
        /\ Len(dispatchers) = 1
        /\ dispatchers[1].hash = h
        /\ dispatchers[1].lastConnRemoved > dispatchers[1].createdAt

(***************************************************************************)
(* The announce cycle                                                      *)
(***************************************************************************)
\* An announceResponse of dispatcher d is applied while the control of its
\* torrent is absent.
ResponseWithoutControl(d, peers) ==
    /\ AnnounceResponseApply(d, peers)
    /\ ~torrentControls[dispatchers[d].hash].present

\* C12: an announceResponse applied while torrentControls[h] is absent marks
\* the queue entry of the dispatcher that issued the announce ready, and
\* creates no pending entry and no dial.
AbsentControlReadies ==
    [][\A d \in DOMAIN dispatchers, peers \in ReannouncePeerLists :
          ResponseWithoutControl(d, peers)
          => /\ announceQueue' = AqReady(announceQueue, d)
             /\ connState' = connState
             /\ tasks' = tasks]_vars

\* completedDispatcherEvent.Apply of dispatcher d runs to its end with the
\* control of its torrent present.
CompletionReturns(d) ==
    /\ CompletedDispatcherApply(d)
    /\ torrentControls[dispatchers[d].hash].present
    /\ applyRest' = NotBlocked

\* C13: after completedDispatcher{d} is applied with the control present,
\* the control has Complete = true and an empty Errors list.
CompletionClearsErrors ==
    [][\A d \in DOMAIN dispatchers :
          CompletionReturns(d)
          => /\ torrentControls'[dispatchers[d].hash].complete
             /\ torrentControls'[dispatchers[d].hash].errors = <<>>]_vars

\* C14: once completedDispatcher{d} has been applied, d is out of the
\* announce queue for good and no later announceTick starts an announce for
\* it, in whatever order the responses and failures of its outstanding
\* announces and further ticks are applied.
DoneNeverAnnounced ==
    [][\A d \in DOMAIN dispatchers :
          (d \in announceQueue.removed \/ CompletedDispatcherApply(d))
          => /\ d \in announceQueue'.removed
             /\ d \notin Range(announceQueue'.queue)
             /\ announces'[d] <= announces[d]]_vars

\* C14 witness: the response of an announce of the only dispatcher was
\* applied after its completedDispatcher, and the queue is empty.
AnsweredAfterDone ==
    /\ Len(dispatchers) = 1
    /\ 1 \in announceQueue.removed
    /\ torrentControls[dispatchers[1].hash].present
    /\ lastAdds # <<>>
    /\ announceQueue.queue = <<>>

\* An announceFailure of dispatcher d is applied and d has not completed.
FailureBeforeDone(d) ==
    AnnounceFailureApply(d) /\ d \notin announceQueue.removed

\* C15 as claimed: after announceFailure{d} for a dispatcher that has not
\* completed, d is the dispatcher the next announceTick announces, that is,
\* d is at the head of the announce queue.
FailedAnnouncedNext ==
    [][\A d \in DOMAIN dispatchers :
          FailureBeforeDone(d)
          => /\ announceQueue'.queue # <<>>
             /\ Head(announceQueue'.queue) = d]_vars

\* C15: after announceFailure{d} for a dispatcher that has not completed, d
\* is back in the announce queue, behind the dispatchers that were already
\* waiting; each announceTick announces the head of the queue and leaves the
\* order of the others, so d is announced again by the tick that finds it at
\* the head.
FailedRequeuedAtTail ==
    [][/\ \A d \in DOMAIN dispatchers :
             FailureBeforeDone(d)
             => /\ d \in Range(announceQueue'.queue)
                /\ d \notin Range(announceQueue.queue)
                   => announceQueue'.queue = Append(announceQueue.queue, d)
       /\ (AnnounceTickApply /\ announceQueue.queue # <<>>)
          => /\ announces'[Head(announceQueue.queue)]
                    = announces[Head(announceQueue.queue)] + 1
             /\ announceQueue'.queue = Tail(announceQueue.queue)]_vars

\* C15 witness: the first dispatcher was put back behind the second one,
\* which was still waiting for its first announce.
RequeuedBehindWaiting ==
    /\ announceQueue.queue = <<2, 1>>
    /\ announceQueue.removed = {}
    /\ announces = <<0, 0>>
    /\ lastAdds = <<>>

\* Scenario S1: with MaxConnsPerTorrent = 2 and h1 just added, the response
\* [p1, p2, p3] of dispatcher d is applied.
ScenarioS1(d) ==
    /\ MaxConnsPerTorrent = 2
    /\ dispatchers[d].hash = "h1"
    /\ torrentControls["h1"].present
    /\ connState.capacity["h1"] = MaxConnsPerTorrent
    /\ connState.pending = {}
    /\ DOMAIN connState.active = {}
    /\ DOMAIN connState.blacklist = {}
    /\ AnnounceResponseApply(d, <<"p1", "p2", "p3">>)

\* C16 as claimed: in scenario S1 AddPending(p3, h1) is not attempted and
\* AddPending is called exactly twice.
S1CallsAddPendingTwice ==
    [][\A d \in DOMAIN dispatchers :
          ScenarioS1(d)
          => /\ Len(lastAdds') = 2
             /\ \A i \in DOMAIN lastAdds' : lastAdds'[i].peer # "p3"]_vars

\* C16: in scenario S1 AddPending is called three times: for p1 and p2, which
\* are admitted and dialed, and for p3, which is answered AtCapacity, changes
\* nothing and ends the loop; p1 and p2 are the only new pending entries and
\* the only dials.
S1ThirdCallRefused ==
    [][\A d \in DOMAIN dispatchers :
          ScenarioS1(d)
          => /\ lastAdds' = << [peer |-> "p1", err |-> NoErr],
                               [peer |-> "p2", err |-> NoErr],
                               [peer |-> "p3", err |-> errTorrentAtCapacity] >>
             /\ tasks' = tasks \cup {[peer |-> q, hash |-> "h1", dir |-> "out"] :
                                         q \in {"p1", "p2"}}
             /\ connState'.pending = {<<"p1", "h1">>, <<"p2", "h1">>}
             /\ connState'.capacity["h1"] = 0
             /\ connState'.active = connState.active
             /\ connState'.blacklist = connState.blacklist]_vars

\* C16 witness: the state right after scenario S1.
S1Applied ==
    /\ lastAdds = << [peer |-> "p1", err |-> NoErr],
                     [peer |-> "p2", err |-> NoErr],
                     [peer |-> "p3", err |-> errTorrentAtCapacity] >>
    /\ connState.pending = {<<"p1", "h1">>, <<"p2", "h1">>}
    /\ connState.capacity["h1"] = 0
    /\ nTasks = 2
    /\ conns = <<>>

(***************************************************************************)
(* Reconnect throttling                                                    *)
(***************************************************************************)
\* The pair k has a blacklist entry made at the current time.
JustBlacklisted(k) ==
    /\ k \in DOMAIN connState'.blacklist
    /\ connState'.blacklist[k] = now + BlacklistDuration

\* C17: closedConn for a conn of (p, h) and failedHandshake{p, h} leave a
\* blacklist entry for (p, h); the entry goes away only in a cleanupBlacklist
\* applied once BlacklistDuration has passed; and as long as it exists no
\* event makes (p, h) pending or starts a handshake task for it.
ReconnectThrottled ==
    [][/\ \A c \in DOMAIN conns :
             ClosedConnApply(c) => JustBlacklisted(<<conns[c].peer, conns[c].hash>>)
       /\ \A p \in Peers, h \in Hashes :
             FailedHandshakeApply(p, h) => JustBlacklisted(<<p, h>>)
       /\ \A k \in DOMAIN connState.blacklist :
             /\ k \notin connState'.pending
             /\ \A t \in tasks' \ tasks : <<t.peer, t.hash>> # k
             /\ k \notin DOMAIN connState'.blacklist
                   => /\ CleanupBlacklistApply
                      /\ now >= connState.blacklist[k]]_vars

\* C17 witness: a conn of the only torrent was closed and reported, its pair
\* is blacklisted, and the announce response applied last asked to admit the
\* same peer and was refused.
RedialRefused ==
    /\ Len(dispatchers) = 1
    /\ \E c \in DOMAIN conns :
           /\ conns[c].emitted = 1
           /\ conns[c].hash = dispatchers[1].hash
           /\ <<conns[c].peer, conns[c].hash>> \in DOMAIN connState.blacklist
           /\ \E i \in DOMAIN lastAdds :
                  /\ lastAdds[i].peer = conns[c].peer
                  /\ lastAdds[i].err = "Blacklisted"
    /\ tasks = {}

\* C18: no Apply body blocks: newTorrent on a complete torrent and
\* completedDispatcher deliver success without the loop waiting for a
\* receiver, so the loop is never parked inside a send on an error channel.
ApplyNeverBlocks == applyRest = NotBlocked

\* C19: at most one announce is in flight for any dispatcher at any time:
\* announceTick never starts an announce for a dispatcher whose previous
\* announce has not been answered.
OneAnnounceInFlight == \A d \in DOMAIN announces : announces[d] <= 1

(***************************************************************************)
(* Pending reservations                                                    *)
(***************************************************************************)
\* The handshake tasks running for the pair k.
TasksOf(k) == {t \in tasks : <<t.peer, t.hash>> = k}

\* Conn c could not be added, was closed, and holds the active entry of its
\* pair.
ClosedHoldingSlot(c) ==
    /\ c \in DOMAIN conns
    /\ conns[c].closed
    /\ <<conns[c].peer, conns[c].hash>> \in DOMAIN connState.active
    /\ connState.active[<<conns[c].peer, conns[c].hash>>] = c

\* C20: every pending pair has exactly one handshake task and every task a
\* pending pair; a pair leaves Pending either into Active, keeping its slot,
\* or by failedHandshake, giving the slot back; with tasks that terminate
\* every pending pair eventually leaves Pending, and a conn that was closed
\* because it could not be added eventually gives up its active entry.
PendingResolved ==
    /\ [](\A k \in connState.pending : Cardinality(TasksOf(k)) = 1)
    /\ [](\A t \in tasks : <<t.peer, t.hash>> \in connState.pending)
    /\ [][\A k \in connState.pending :
             k \notin connState'.pending
             => \/ /\ k \in DOMAIN connState'.active
                   /\ connState'.capacity[k[2]] = connState.capacity[k[2]]
                \/ /\ FailedHandshakeApply(k[1], k[2])
                   /\ k \notin DOMAIN connState'.active
                   /\ connState'.capacity[k[2]] = connState.capacity[k[2]] + 1]_vars
    /\ \A p \in SpecPeers, h \in Hashes :
           (<<p, h>> \in connState.pending) ~> (<<p, h>> \notin connState.pending)
    /\ \A c \in 1..MaxConns : ClosedHoldingSlot(c) ~> ~ClosedHoldingSlot(c)

\* C20 witness: one handshake failed and gave its slot back; the other
\* produced a conn that could not be added, was closed and reported, and its
\* slot was given back too.
BothSlotsReleased ==
    /\ nTasks = 2
    /\ tasks = {}
    /\ connState.pending = {}
    /\ DOMAIN connState.active = {}
    /\ Len(conns) = 1
    /\ conns[1].closed
    /\ conns[1].disp = NoDisp
    /\ conns[1].emitted = 1
    /\ connState.capacity[conns[1].hash] = MaxConnsPerTorrent
    /\ \E k \in DOMAIN connState.blacklist : k # <<conns[1].peer, conns[1].hash>>

====
